---- MODULE Spec2Model ----
(***************************************************************************)
(* Prescripto: OCR text -> structured prescription -> reminder schedule.   *)
(*                                                                         *)
(* Strings are sequences of one-character strings, so that the regular     *)
(* expressions and substring tests of the source are computed character by *)
(* character.  Python's None and "" are both the empty sequence for string *)
(* arguments: every use in the source tests truthiness before anything     *)
(* else (`text or ""`, `if not dose_pattern`, `if fallback_instr`).        *)
(* An Optional value of another type is a sequence of length <= 1.         *)
(***************************************************************************)
EXTENDS Integers, Sequences, FiniteSets, TLC

VARIABLES
    pc,             \* position in the call chain / in process_prescription
    text,           \* the recognized text handed to the parser
    dose_pattern,   \* argument of generate_schedule_entries_for_medicine
    duration_arg,   \* its duration_days argument: <<>> (None) or <<n>>
    fallback_instr, \* its fallback_instr argument
    start_arg,      \* its start_date argument: <<>> (None) or <<ordinal>>
    times,          \* value returned by map_dose_pattern_to_times, or by
                    \* estimate_times_from_text when called on its own
    parsed,         \* <<>> or <<record returned by parse_prescription_text>>
    items,          \* list returned by parse_prescription_items
    spans,          \* list returned by _split_items
    schedule,       \* <<>> or <<MedicineSchedule>>
    entries,        \* list returned by expand_schedule_to_datetime_entries
    exc,            \* exception that left the last call ("none" if it returned)
    env,            \* what the collaborators of one pipeline run will do
    failed,         \* collaborator stages that failed in this pipeline run
    parser_used,    \* which parser the pipeline applied to the text
    regions,        \* number of boxes detect_regions returned
    saved,          \* <<>> or <<count returned by save_schedule_entries>>
    ret,            \* value process_prescription returned: <<>> while running
    medications,    \* committed rows of table medications, in rowid order
    reminders,      \* committed rows of table reminders, in rowid order
    lock,           \* connection holding the database write lock, 0 if none
    calls           \* the save_schedule calls in progress, one per connection

\* the state of the schedule functions, the parsers and the pipeline
progvars == << pc, text, dose_pattern, duration_arg, fallback_instr, start_arg,
               times, parsed, items, spans, schedule, entries, exc, env, failed,
               parser_used, regions, saved, ret >>

\* the state of the SQLite database and of the calls of db.py
dbvars == << medications, reminders, lock, calls >>

vars == << pc, text, dose_pattern, duration_arg, fallback_instr, start_arg,
           times, parsed, items, spans, schedule, entries, exc, env, failed,
           parser_used, regions, saved, ret, medications, reminders, lock,
           calls >>

-----------------------------------------------------------------------------
(* Bounds of the checked instances *)

MaxDuration == 3
MaxTokens == 3
MaxRegions == 2
MaxHours == 26
MaxProcs == 2
MaxReminders == 2

-----------------------------------------------------------------------------
(* Characters and strings *)

NONE == << >>
Some(v) == << v >>

UPPER == <<"A","B","C","D","E","F","G","H","I","J","K","L","M",
           "N","O","P","Q","R","S","T","U","V","W","X","Y","Z">>
LOWER == <<"a","b","c","d","e","f","g","h","i","j","k","l","m",
           "n","o","p","q","r","s","t","u","v","w","x","y","z">>
DIGITS == <<"0","1","2","3","4","5","6","7","8","9">>

IsUpper(c) == \E i \in 1..26 : UPPER[i] = c
IsLower(c) == \E i \in 1..26 : LOWER[i] = c
IsAlpha(c) == IsUpper(c) \/ IsLower(c)
IsDigit(c) == \E i \in 1..10 : DIGITS[i] = c
IsSpace(c) == c \in {" ", "\n", "\t", "\r", "\f"}
IsWordChar(c) == IsAlpha(c) \/ IsDigit(c) \/ c = "_"

\* str.lower() on one character
LowerChar(c) == IF IsUpper(c) THEN LOWER[CHOOSE i \in 1..26 : UPPER[i] = c] ELSE c
Lower(s) == [i \in 1..Len(s) |-> LowerChar(s[i])]

DigitVal(c) == (CHOOSE i \in 1..10 : DIGITS[i] = c) - 1

\* int(s) for a string of decimal digits
RECURSIVE ToInt(_)
ToInt(s) == IF s = << >> THEN 0
            ELSE 10 * ToInt(SubSeq(s, 1, Len(s) - 1)) + DigitVal(s[Len(s)])

\* s[a:b] with 0-based Python slice bounds
Slice(s, a, b) == SubSeq(s, a + 1, b)

\* str.strip(): drop leading and trailing whitespace
RECURSIVE LStrip(_)
LStrip(s) == IF s # << >> /\ IsSpace(s[1]) THEN LStrip(Tail(s)) ELSE s
RECURSIVE RStrip(_)
RStrip(s) == IF s # << >> /\ IsSpace(s[Len(s)])
             THEN RStrip(SubSeq(s, 1, Len(s) - 1)) ELSE s
Strip(s) == RStrip(LStrip(s))

\* the literal lit stands at 0-based offset p of s
LitAt(s, p, lit) == p + Len(lit) <= Len(s) /\ Slice(s, p, p + Len(lit)) = lit
\* the same under re.I
LitAtCI(s, p, lit) ==
    p + Len(lit) <= Len(s) /\ Lower(Slice(s, p, p + Len(lit))) = lit

\* `sub in s`
Contains(s, sub) == \E p \in 0..(Len(s) - Len(sub)) : LitAt(s, p, sub)

\* \b at offset p: exactly one side is a word character
Boundary(s, p) ==
    LET before == p >= 1 /\ IsWordChar(s[p])
        after  == p < Len(s) /\ IsWordChar(s[p + 1])
    IN  before # after

\* end offset of the run of characters satisfying a class, starting at p
RECURSIVE SpaceRunEnd(_, _)
SpaceRunEnd(s, p) ==
    IF p < Len(s) /\ IsSpace(s[p + 1]) THEN SpaceRunEnd(s, p + 1) ELSE p
RECURSIVE DigitRunEnd(_, _)
DigitRunEnd(s, p) ==
    IF p < Len(s) /\ IsDigit(s[p + 1]) THEN DigitRunEnd(s, p + 1) ELSE p
\* end of the line holding offset p (the offset of its "\n", or len(s))
RECURSIVE LineEnd(_, _)
LineEnd(s, p) ==
    IF p < Len(s) /\ s[p + 1] # "\n" THEN LineEnd(s, p + 1) ELSE p

-----------------------------------------------------------------------------
(* schedule_creator.py *)

Time(h, m) == [hour |-> h, minute |-> m]

DEFAULT_MORNING   == Time(8, 0)
DEFAULT_AFTERNOON == Time(13, 0)
DEFAULT_EVENING   == Time(18, 0)
DEFAULT_NIGHT     == Time(21, 0)

\* TIME_TOKEN_MAP in its insertion (= iteration) order
TIME_TOKEN_MAP ==
    << [token |-> <<"m","o","r","n","i","n","g">>,         slot |-> DEFAULT_MORNING],
       [token |-> <<"a","f","t","e","r","n","o","o","n">>, slot |-> DEFAULT_AFTERNOON],
       [token |-> <<"e","v","e","n","i","n","g">>,         slot |-> DEFAULT_EVENING],
       [token |-> <<"n","i","g","h","t">>,                 slot |-> DEFAULT_NIGHT],
       [token |-> <<"n","o","o","n">>,                     slot |-> Time(12, 0)] >>

\* date.today(), as a proleptic Gregorian ordinal (2026-11-02)
Today == 739922
\* date.max.toordinal(): date arithmetic beyond it raises OverflowError
DateMaxOrdinal == 3652059

\* re.sub(r"\s+", " ", ...): every whitespace run becomes one space
RECURSIVE CollapseSpaces(_)
CollapseSpaces(s) ==
    IF s = << >> THEN << >>
    ELSE IF IsSpace(s[1])
         THEN <<" ">> \o CollapseSpaces(Slice(s, SpaceRunEnd(s, 0), Len(s)))
         ELSE <<s[1]>> \o CollapseSpaces(Tail(s))

normalize_text(s) == CollapseSpaces(Lower(Strip(s)))

\* ^([0-9])\-([0-9])\-([0-9])$ on the stripped pattern; NONE when no match.
\* ($ also matches before one final "\n", which strip() has removed.)
parse_numeric_pattern(pattern) ==
    LET p == Strip(pattern)
    IN  IF Len(p) = 5 /\ IsDigit(p[1]) /\ p[2] = "-" /\ IsDigit(p[3])
           /\ p[4] = "-" /\ IsDigit(p[5])
        THEN << DigitVal(p[1]), DigitVal(p[3]), DigitVal(p[5]) >>
        ELSE NONE

InSeq(x, s) == \E i \in 1..Len(s) : s[i] = x

Min(a, b) == IF a <= b THEN a ELSE b
Max(a, b) == IF a >= b THEN a ELSE b

\* the loop of map_counts_to_times over zip(counts, mapping), from index i
RECURSIVE CountsLoop(_, _, _, _)
CountsLoop(counts, mapping, i, slots) ==
    IF i > Min(Len(counts), Len(mapping)) THEN slots
    ELSE CountsLoop(counts, mapping, i + 1,
                    IF counts[i] # 0 /\ ~InSeq(mapping[i], slots)
                    THEN Append(slots, mapping[i]) ELSE slots)

MutCountsNightAsEvening(counts) ==
    CountsLoop(counts, <<DEFAULT_MORNING, DEFAULT_AFTERNOON, DEFAULT_EVENING>>,
               1, << >>)

map_counts_to_times(counts) ==
    CountsLoop(counts, <<DEFAULT_MORNING, DEFAULT_AFTERNOON, DEFAULT_NIGHT>>,
               1, << >>)

\* every\s+(\d+)\s*hours? matched at offset p: <<hours>>, or NONE
EveryMatchAt(s, p) ==
    LET lit == <<"e","v","e","r","y">>
        a   == p + Len(lit)
        b   == SpaceRunEnd(s, a)
        c   == DigitRunEnd(s, b)
        d   == SpaceRunEnd(s, c)
    IN  IF LitAt(s, p, lit) /\ b > a /\ c > b /\ LitAt(s, d, <<"h","o","u","r">>)
        THEN Some(ToInt(Slice(s, b, c)))
        ELSE NONE

\* re.search: the leftmost offset >= p at which the pattern matches
RECURSIVE EverySearch(_, _)
EverySearch(s, p) ==
    IF p > Len(s) THEN NONE
    ELSE IF EveryMatchAt(s, p) # NONE THEN EveryMatchAt(s, p)
    ELSE EverySearch(s, p + 1)

MutAddHoursNoWrap(dt, h) ==
    LET total == dt.hour + h
    IN  [date |-> dt.date, hour |-> total, minute |-> dt.minute]

\* datetime + timedelta(hours=h), the datetime being [date, hour, minute]
AddHours(dt, h) ==
    LET total == dt.hour + h
    IN  [date |-> dt.date + (total \div 24), hour |-> total % 24,
         minute |-> dt.minute]

\* while len(slots) < 24 // max(1, hours): slots.append(t.time()); t += hours
RECURSIVE EveryLoop(_, _, _)
EveryLoop(slots, t, hours) ==
    IF Len(slots) < 24 \div Max(1, hours)
    THEN EveryLoop(Append(slots, Time(t.hour, t.minute)), AddHours(t, hours), hours)
    ELSE slots

\* the final loop over TIME_TOKEN_MAP.items(): the first token found in s
RECURSIVE TokenLoop(_, _)
TokenLoop(s, i) ==
    IF i > Len(TIME_TOKEN_MAP) THEN << >>
    ELSE IF Contains(s, TIME_TOKEN_MAP[i].token) THEN << TIME_TOKEN_MAP[i].slot >>
    ELSE TokenLoop(s, i + 1)

estimate_times_from_text(instr) ==
    LET s == normalize_text(instr)
        m == EverySearch(s, 0)
    IN  IF \/ Contains(s, <<"o","n","c","e">>)
           \/ Contains(s, <<"o","n","c","e"," ","a"," ","d","a","y">>)
           \/ (Contains(s, <<"d","a","i","l","y">>)
               /\ ~Contains(s, <<"t","w","i","c","e">>))
        THEN << DEFAULT_MORNING >>
        ELSE IF \/ Contains(s, <<"t","w","i","c","e">>)
                \/ Contains(s, <<"t","w","o"," ","t","i","m","e","s">>)
                \/ Contains(s, <<"2"," ","t","i","m","e","s">>)
        THEN << DEFAULT_MORNING, DEFAULT_NIGHT >>
        ELSE IF \/ Contains(s, <<"t","h","r","e","e">>)
                \/ Contains(s, <<"t","h","r","i","c","e">>)
                \/ Contains(s, <<"3"," ","t","i","m","e","s">>)
        THEN << DEFAULT_MORNING, DEFAULT_AFTERNOON, DEFAULT_NIGHT >>
        ELSE IF m # NONE
        THEN EveryLoop(<< >>,
                       [date |-> Today, hour |-> DEFAULT_MORNING.hour,
                        minute |-> DEFAULT_MORNING.minute],
                       m[1])
        ELSE TokenLoop(s, 1)

map_dose_pattern_to_times(dose, fallback) ==
    IF dose = << >> THEN << >>
    ELSE
      LET s      == normalize_text(dose)
          counts == parse_numeric_pattern(s)
          byNum  == IF counts # NONE THEN map_counts_to_times(counts) ELSE << >>
          byText == estimate_times_from_text(s)
          byFall == IF fallback # << >> THEN estimate_times_from_text(fallback)
                    ELSE << >>
      IN  IF byNum # << >> THEN byNum
          ELSE IF byText # << >> THEN byText
          ELSE IF byFall # << >> THEN byFall
          ELSE << DEFAULT_MORNING, DEFAULT_NIGHT >>

\* the two defaults of generate_schedule_entries_for_medicine
EffectiveDuration(d) == IF d = NONE \/ d[1] <= 0 THEN 5 ELSE d[1]
MutDurationNegativeOnly(d) == IF d = NONE \/ d[1] < 0 THEN 5 ELSE d[1]

MutScheduleKeepsEmptyTimes(med, dose, d, start, fallback, notes) ==
    [ medicine      |-> med,
      dose_pattern  |-> dose,
      duration_days |-> MutDurationNegativeOnly(d),
      start_date    |-> IF start = NONE THEN Today ELSE start[1],
      times         |-> map_dose_pattern_to_times(dose, fallback),
      notes         |-> notes ]

generate_schedule_entries_for_medicine(med, dose, d, start, fallback, notes) ==
    LET t == map_dose_pattern_to_times(dose, fallback)
    IN  [ medicine      |-> med,
          dose_pattern  |-> dose,
          duration_days |-> EffectiveDuration(d),
          start_date    |-> IF start = NONE THEN Today ELSE start[1],
          times         |-> IF t = << >> THEN << DEFAULT_MORNING, DEFAULT_NIGHT >>
                            ELSE t,
          notes         |-> notes ]

\* one entry of expand_schedule_to_datetime_entries
Entry(s, day_offset, t) ==
    [ date     |-> s.start_date + day_offset,
      time     |-> t,
      medicine |-> s.medicine,
      note     |-> IF s.notes # << >> THEN s.notes ELSE s.dose_pattern ]

\* the entries of the days 0 .. n-1, in the order of the two nested loops
RECURSIVE ExpandDays(_, _)
ExpandDays(s, n) ==
    IF n <= 0 THEN << >>
    ELSE ExpandDays(s, n - 1)
         \o [i \in 1..Len(s.times) |-> Entry(s, n - 1, s.times[i])]

MutExpandDropsLastDay(s) ==
    [ raised |-> FALSE, entries |-> ExpandDays(s, s.duration_days - 1) ]

\* start_date + timedelta(days=day_offset) raises OverflowError as soon as a
\* day of the range lies beyond date.max; nothing is returned then.
expand_schedule_to_datetime_entries(s) ==
    IF s.duration_days >= 1 /\ s.start_date + s.duration_days - 1 > DateMaxOrdinal
    THEN [ raised |-> TRUE, entries |-> << >> ]
    ELSE [ raised |-> FALSE, entries |-> ExpandDays(s, s.duration_days) ]

-----------------------------------------------------------------------------
(* parse_text.py *)

TIME_WORDS == << <<"m","o","r","n","i","n","g">>, <<"n","o","o","n">>,
                 <<"a","f","t","e","r","n","o","o","n">>, <<"a","f","t">>,
                 <<"e","v","e","n","i","n","g">>, <<"e","v","e">>,
                 <<"n","i","g","h","t">> >>

\* str.splitlines() for texts whose only line break is "\n"
RECURSIVE SplitLines(_)
SplitLines(s) ==
    IF s = << >> THEN << >>
    ELSE LET e == LineEnd(s, 0)
         IN  << Slice(s, 0, e) >>
             \o (IF e >= Len(s) THEN << >> ELSE SplitLines(Slice(s, e + 1, Len(s))))

\* str.split(sep) for a one-character separator
RECURSIVE Split(_, _)
Split(s, sep) ==
    IF \E i \in 1..Len(s) : s[i] = sep
    THEN LET i == CHOOSE k \in 1..Len(s) :
                      s[k] = sep /\ \A j \in 1..(k - 1) : s[j] # sep
         IN  << SubSeq(s, 1, i - 1) >> \o Split(SubSeq(s, i + 1, Len(s)), sep)
    ELSE << s >>

\* sep.join(parts)
RECURSIVE Join(_, _)
Join(sep, parts) ==
    IF parts = << >> THEN << >>
    ELSE IF Len(parts) = 1 THEN parts[1]
    ELSE parts[1] \o sep \o Join(sep, Tail(parts))

\* end of the run of [A-Za-z\-] characters starting at offset p
RECURSIVE NameRunEnd(_, _)
NameRunEnd(s, p) ==
    IF p < Len(s) /\ (IsAlpha(s[p + 1]) \/ s[p + 1] = "-")
    THEN NameRunEnd(s, p + 1) ELSE p

\* re.findall(r"[A-Za-z][A-Za-z\-]{2,}", line), scanning from offset p
RECURSIVE NameTokens(_, _)
NameTokens(s, p) ==
    IF p >= Len(s) THEN << >>
    ELSE IF IsAlpha(s[p + 1]) /\ NameRunEnd(s, p) - p >= 3
         THEN << Slice(s, p, NameRunEnd(s, p)) >> \o NameTokens(s, NameRunEnd(s, p))
         ELSE NameTokens(s, p + 1)

MEDICINE_BLACKLIST ==
    { <<"m","o","r","n","i","n","g">>, <<"a","f","t","e","r","n","o","o","n">>,
      <<"e","v","e","n","i","n","g">>, <<"n","i","g","h","t">>,
      <<"d","a","i","l","y">>, <<"t","a","b","l","e","t">>, <<"t","a","b","s">>,
      <<"c","a","p","s","u","l","e">>, <<"m","g">>, <<"m","l">> }

\* SelectSeq with the blacklist test of _guess_medicine_names
NotBlacklisted(tok) == Lower(tok) \notin MEDICINE_BLACKLIST

\* the first candidate of the first line that has one; out[:1]
RECURSIVE GuessLoop(_, _)
GuessLoop(lines, i) ==
    IF i > Len(lines) THEN << >>
    ELSE LET line == Strip(lines[i])
             cand == SelectSeq(NameTokens(line, 0), NotBlacklisted)
         IN  IF line # << >> /\ cand # << >> THEN << cand[1] >>
             ELSE GuessLoop(lines, i + 1)

_guess_medicine_names(t) == GuessLoop(SplitLines(t), 1)

\* \b(\d+)\s*(day|days|week|weeks)\b at offset p, re.I: <<days>> or NONE
DurationMatchAt(s, p) ==
    LET a == DigitRunEnd(s, p)
        b == SpaceRunEnd(s, a)
        Unit(u) == LitAtCI(s, b, u) /\ Boundary(s, b + Len(u))
        isDay  == Unit(<<"d","a","y">>) \/ Unit(<<"d","a","y","s">>)
        isWeek == Unit(<<"w","e","e","k">>) \/ Unit(<<"w","e","e","k","s">>)
        num == ToInt(Slice(s, p, a))
    IN  IF Boundary(s, p) /\ a > p /\ (isDay \/ isWeek)
        THEN (IF isWeek THEN Some(num * 7) ELSE Some(num))
        ELSE NONE

RECURSIVE DurationSearch(_, _)
DurationSearch(s, p) ==
    IF p >= Len(s) THEN NONE
    ELSE IF DurationMatchAt(s, p) # NONE THEN DurationMatchAt(s, p)
    ELSE DurationSearch(s, p + 1)

_parse_duration_days(t) == DurationSearch(t, 0)

\* \b(\d-\d-\d)\b at offset p
DoseMatchAt(s, p) ==
    /\ p + 5 <= Len(s)
    /\ Boundary(s, p)
    /\ IsDigit(s[p + 1]) /\ s[p + 2] = "-" /\ IsDigit(s[p + 3])
    /\ s[p + 4] = "-" /\ IsDigit(s[p + 5])
    /\ Boundary(s, p + 5)

\* DOSE_RE.search(text): <<group(1)>> of the leftmost match, or NONE
RECURSIVE DoseSearch(_, _)
DoseSearch(s, p) ==
    IF p + 5 > Len(s) THEN NONE
    ELSE IF DoseMatchAt(s, p) THEN Some(Slice(s, p, p + 5))
    ELSE DoseSearch(s, p + 1)

\* the alternatives of TIME_RE that match at offset p, in alternation order
TimeWordsAt(s, p) ==
    SelectSeq([i \in 1..Len(TIME_WORDS) |->
                  IF /\ Boundary(s, p) /\ LitAtCI(s, p, TIME_WORDS[i])
                     /\ Boundary(s, p + Len(TIME_WORDS[i]))
                  THEN TIME_WORDS[i] ELSE << >>],
              LAMBDA w : w # << >>)

\* [m.group(1).lower() for m in TIME_RE.finditer(text)], from offset p
RECURSIVE TimeHits(_, _)
TimeHits(s, p) ==
    IF p >= Len(s) THEN << >>
    ELSE IF TimeWordsAt(s, p) # << >>
         THEN << TimeWordsAt(s, p)[1] >>
              \o TimeHits(s, p + Len(TimeWordsAt(s, p)[1]))
         ELSE TimeHits(s, p + 1)

NormalizeTimeWord(w) ==
    IF w \in { <<"a","f","t","e","r","n","o","o","n">>, <<"a","f","t">> }
    THEN <<"n","o","o","n">>
    ELSE IF w = <<"e","v","e">> THEN <<"e","v","e","n","i","n","g">>
    ELSE w

\* deduplicate, keeping the first occurrence of each element
RECURSIVE Dedup(_)
Dedup(s) ==
    IF s = << >> THEN << >>
    ELSE LET r == Dedup(SubSeq(s, 1, Len(s) - 1))
         IN  IF InSeq(s[Len(s)], r) THEN r ELSE Append(r, s[Len(s)])

_parse_times(t) ==
    LET hits == TimeHits(t, 0)
    IN  Dedup([i \in 1..Len(hits) |-> NormalizeTimeWord(hits[i])])

SLOT_NAMES == << <<"m","o","r","n","i","n","g">>, <<"n","o","o","n">>,
                 <<"n","i","g","h","t">> >>

MutTimesFromDoseTwoParts(dose) ==
    LET parts == SubSeq(Split(dose, "-"), 1, Min(2, Len(Split(dose, "-"))))
    IN  SelectSeq([i \in 1..Len(parts) |->
                      IF parts[i] = <<"1">> THEN SLOT_NAMES[i] ELSE << >>],
                  LAMBDA w : w # << >>)

\* times inferred from the dose digits (parse_prescription_text, lines 91-96)
TimesFromDose(dose) ==
    LET parts == SubSeq(Split(dose, "-"), 1, Min(3, Len(Split(dose, "-"))))
    IN  SelectSeq([i \in 1..Len(parts) |->
                      IF parts[i] = <<"1">> THEN SLOT_NAMES[i] ELSE << >>],
                  LAMBDA w : w # << >>)

\* dose synthesized from the times (parse_prescription_text, lines 99-101)
DoseFromTimes(tm) ==
    Join(<<"-">>, [i \in 1..3 |-> IF InSeq(SLOT_NAMES[i], tm) THEN <<"1">>
                                  ELSE <<"0">>])

\* `duration_days or 1`
DurationOrDefault(d) == IF d = NONE \/ d[1] = 0 THEN 1 ELSE d[1]

parse_prescription_text(t) ==
    LET meds   == _guess_medicine_names(t)
        dose0  == DoseSearch(t, 0)
        times0 == _parse_times(t)
        times1 == IF dose0 # NONE /\ times0 = << >> THEN TimesFromDose(dose0[1])
                  ELSE times0
        dose1  == IF times1 # << >> /\ dose0 = NONE THEN Some(DoseFromTimes(times1))
                  ELSE dose0
    IN  [ medicine      |-> IF meds # << >> THEN meds[1]
                            ELSE <<"U","n","k","n","o","w","n">>,
          dose          |-> IF dose1 # NONE THEN dose1[1]
                            ELSE <<"0","-","0","-","0">>,
          time          |-> times1,
          duration_days |-> DurationOrDefault(_parse_duration_days(t)) ]

\* ^ under re.M: offset 0 or just after a "\n"
AtLineStart(s, p) == p = 0 \/ s[p] = "\n"

\* the largest k <= n such that a character other than "\n" stands at offset
\* c + k: where the greedy \s* of ITEM_START_RE stops so that (.+) can match
RECURSIVE BodyStart(_, _, _)
BodyStart(s, c, k) ==
    IF k < 0 THEN NONE
    ELSE IF c + k < Len(s) /\ s[c + k + 1] # "\n" THEN Some(c + k)
    ELSE BodyStart(s, c, k - 1)

\* ^\s*(\d+)\)\s*(.+)$ (re.M) at offset p: <<end offset>> or NONE
ItemMatchAt(s, p) ==
    LET a == SpaceRunEnd(s, p)
        b == DigitRunEnd(s, a)
        c == b + 1
        body == BodyStart(s, c, SpaceRunEnd(s, c) - c)
    IN  IF /\ AtLineStart(s, p) /\ b > a /\ b < Len(s) /\ s[b + 1] = ")"
           /\ body # NONE
        THEN Some(LineEnd(s, body[1]))
        ELSE NONE

\* list(ITEM_START_RE.finditer(text)): the start offsets of the matches
RECURSIVE ItemStarts(_, _)
ItemStarts(s, p) ==
    IF p >= Len(s) THEN << >>
    ELSE IF ItemMatchAt(s, p) # NONE
         THEN << p >> \o ItemStarts(s, ItemMatchAt(s, p)[1])
         ELSE ItemStarts(s, p + 1)

_split_items(t) ==
    LET starts == ItemStarts(t, 0)
    IN  [i \in 1..Len(starts) |->
           LET start == starts[i]
               end   == IF i + 1 <= Len(starts) THEN starts[i + 1] ELSE Len(t)
           IN  [ item |-> Strip(Slice(t, start, end)), start |-> start,
                 end |-> end ]]

\* re.sub(r"^\s*\d+\)\s*", "", line): drop a leading ordinal
DropOrdinal(s) ==
    LET a == SpaceRunEnd(s, 0)
        b == DigitRunEnd(s, a)
    IN  IF b > a /\ b < Len(s) /\ s[b + 1] = ")"
        THEN Slice(s, SpaceRunEnd(s, b + 1), Len(s))
        ELSE s

\* re.sub(r"^(TAB\.?|CAP\.?|SYR\.?|INJ\.?)\s*", "", line, flags=re.I)
DropFormPrefix(s) ==
    LET forms == { <<"t","a","b">>, <<"c","a","p">>, <<"s","y","r">>,
                   <<"i","n","j">> }
        a == IF Len(s) >= 4 /\ s[4] = "." THEN 4 ELSE 3
    IN  IF \E f \in forms : LitAtCI(s, 0, f)
        THEN Slice(s, SpaceRunEnd(s, a), Len(s))
        ELSE s

\* re.sub(r"\s{2,}", " ", line)
RECURSIVE CollapseLongSpaces(_)
CollapseLongSpaces(s) ==
    IF s = << >> THEN << >>
    ELSE IF SpaceRunEnd(s, 0) >= 2
         THEN <<" ">> \o CollapseLongSpaces(Slice(s, SpaceRunEnd(s, 0), Len(s)))
         ELSE <<s[1]>> \o CollapseLongSpaces(Tail(s))

_clean_medicine_name(line) ==
    CollapseLongSpaces(Strip(DropFormPrefix(Strip(DropOrdinal(line)))))

\* [ln.strip() for ln in seg.splitlines() if ln.strip()]
NonEmptyLines(seg) ==
    SelectSeq([i \in 1..Len(SplitLines(seg)) |-> Strip(SplitLines(seg)[i])],
              LAMBDA ln : ln # << >>)

\* the record parse_prescription_items appends for one segment
ItemRecord(seg) ==
    LET cleaned == _clean_medicine_name(NonEmptyLines(seg)[1])
        rec     == parse_prescription_text(seg)
    IN  [rec EXCEPT !.medicine = IF cleaned # << >> THEN cleaned ELSE rec.medicine]

parse_prescription_items(t) ==
    LET segs == SelectSeq(_split_items(t), LAMBDA sp : NonEmptyLines(sp.item) # << >>)
    IN  [i \in 1..Len(segs) |-> ItemRecord(segs[i].item)]

-----------------------------------------------------------------------------
(* db.py and save_schedule_entries *)

\* the functions src/db.py defines: what `import src.db as db` exposes
DbModuleApi ==
    { "get_connection", "init_db", "upsert_medicine", "save_schedule",
      "list_reminders" }

\* save_schedule_entries(db_module, schedule): an attribute the module lacks
\* raises AttributeError at its first use
save_schedule_entries(db, s) ==
    IF "create_schedule_table" \notin db
    THEN [ raised |-> "AttributeError", count |-> 0 ]
    ELSE IF expand_schedule_to_datetime_entries(s).raised
    THEN [ raised |-> "OverflowError", count |-> 0 ]
    ELSE IF expand_schedule_to_datetime_entries(s).entries # << >>
            /\ "insert_schedule_entry" \notin db
    THEN [ raised |-> "AttributeError", count |-> 0 ]
    ELSE [ raised |-> "none",
           count  |-> Len(expand_schedule_to_datetime_entries(s).entries) ]

-----------------------------------------------------------------------------
(* Inputs of the checked instances *)

\* decimal representation of a natural number
RECURSIVE DecimalChars(_)
DecimalChars(n) ==
    IF n < 10 THEN << DIGITS[n + 1] >>
    ELSE DecimalChars(n \div 10) \o << DIGITS[(n % 10) + 1] >>

BinaryPatterns == { <<a, "-", b, "-", c>> : a \in {"0", "1"}, b \in {"0", "1"},
                                            c \in {"0", "1"} }

EveryHours == 0..MaxHours

\* the texts holding 'every n hours' that the schedule functions are given
EveryTexts(n) ==
    { <<"e","v","e","r","y"," ">> \o DecimalChars(n) \o <<" ","h","o","u","r","s">>,
      <<"E","v","e","r","y"," "," ">> \o DecimalChars(n) \o <<"h","o","u","r">>,
      <<"1"," ","t","a","b"," ","e","v","e","r","y"," ">> \o DecimalChars(n)
          \o <<" ","h","o","u","r","s"," ","a","t"," ","n","i","g","h","t">> }

EveryPatterns == UNION { EveryTexts(n) : n \in EveryHours }

DosePatterns ==
    BinaryPatterns \cup EveryPatterns \cup
    { << >>, <<"2","-","0","-","1">>, <<"t","w","i","c","e">>,
      <<"o","n","c","e"," ","d","a","i","l","y">>, <<"t","h","r","i","c","e">>,
      <<"e","v","e","n","i","n","g">>, <<"n","o","o","n">>, <<"a","b","c">> }

Durations == { NONE } \cup { Some(d) : d \in (-1)..MaxDuration }

Fallbacks == { << >>, <<"t","w","i","c","e">>, <<"n","i","g","h","t">>,
               <<"a","f","t","e","r"," ","f","o","o","d">> }

StartDates == { NONE, Some(Today + 1) }

MedName == <<"A","b","c">>

\* pieces the recognized texts are concatenated from
TextTokens ==
    { <<"\n">>, <<" ">>, <<"1",")">>, <<"2",")"," ","x","y","z">>,
      <<"A","b","c">>, <<"1","-","0","-","1">>, <<"0","-","1","-","0">>,
      <<"5"," ","d","a","y","s">>, <<"0"," ","d","a","y","s">>,
      <<"4","0","0","0","0","0","0"," ","d","a","y","s">>,
      <<"m","o","r","n","i","n","g">>, <<"N","i","g","h","t">>,
      <<"a","f","t">>, <<"e","v","e">> }

RECURSIVE Concat(_)
Concat(ss) == IF ss = << >> THEN << >> ELSE ss[1] \o Concat(Tail(ss))

Texts == UNION { { Concat(ts) : ts \in [1..n -> TextTokens] } : n \in 0..MaxTokens }

\* what the OCR engine reads in one region
RegionTexts ==
    { << >>,
      <<"1",")"," ","A","b","c"," ","1","-","0","-","1">>,
      <<"2",")"," ","x","y","z"," ","n","i","g","h","t">>,
      <<"A","b","c"," ","0","-","1","-","0"," ","5"," ","d","a","y","s">>,
      <<"A","b","c"," ","0"," ","d","a","y","s">>,
      <<"A","b","c"," ","e","v","e">>,
      <<"m","o","r","n","i","n","g">> }

Envs == [ image_exists : BOOLEAN,
          detector     : {"ok", "error"},
          open_image   : {"ok", "error"},
          ocr_engine   : {"ok", "unavailable", "failing"} ]

NoEnv == [ image_exists |-> TRUE, detector |-> "ok", open_image |-> "ok",
           ocr_engine |-> "ok" ]

\* no database is open: the schedule functions and the parsers use none, and
\* the pipeline's save stage fails before it opens one
NoDb == medications = << >> /\ reminders = << >> /\ lock = 0 /\ calls = << >>

-----------------------------------------------------------------------------
(* The schedule functions called with arguments of the caller's choice *)

InitSched ==
    /\ pc = "sched_in"
    /\ NoDb
    /\ dose_pattern \in DosePatterns
    /\ duration_arg \in Durations
    /\ fallback_instr \in Fallbacks
    /\ start_arg \in StartDates
    /\ text = << >> /\ times = << >> /\ parsed = << >> /\ items = << >>
    /\ spans = << >> /\ schedule = << >> /\ entries = << >> /\ exc = "none"
    /\ env = NoEnv /\ failed = {} /\ parser_used = "none" /\ regions = 0
    /\ saved = << >> /\ ret = << >>

CallMapDose ==
    /\ pc = "sched_in"
    /\ UNCHANGED dbvars
    /\ times' = map_dose_pattern_to_times(dose_pattern, fallback_instr)
    /\ pc' = "sched_mapped"
    /\ UNCHANGED << text, dose_pattern, duration_arg, fallback_instr, start_arg,
                    parsed, items, spans, schedule, entries, exc, env, failed,
                    parser_used, regions, saved, ret >>

CallEstimate ==
    /\ pc = "sched_in"
    /\ UNCHANGED dbvars
    /\ times' = estimate_times_from_text(dose_pattern)
    /\ pc' = "sched_estimated"
    /\ UNCHANGED << text, dose_pattern, duration_arg, fallback_instr, start_arg,
                    parsed, items, spans, schedule, entries, exc, env, failed,
                    parser_used, regions, saved, ret >>

CallGenerate ==
    /\ pc = "sched_mapped"
    /\ UNCHANGED dbvars
    /\ schedule' = Some(generate_schedule_entries_for_medicine(
                            MedName, dose_pattern, duration_arg, start_arg,
                            fallback_instr, NONE))
    /\ pc' = "sched_generated"
    /\ UNCHANGED << text, dose_pattern, duration_arg, fallback_instr, start_arg,
                    times, parsed, items, spans, entries, exc, env, failed,
                    parser_used, regions, saved, ret >>

CallExpand ==
    /\ pc = "sched_generated"
    /\ UNCHANGED dbvars
    /\ LET r == expand_schedule_to_datetime_entries(schedule[1])
       IN  /\ entries' = r.entries
           /\ exc' = IF r.raised THEN "OverflowError" ELSE "none"
    /\ pc' = "sched_expanded"
    /\ UNCHANGED << text, dose_pattern, duration_arg, fallback_instr, start_arg,
                    times, parsed, items, spans, schedule, env, failed,
                    parser_used, regions, saved, ret >>

NextSched == CallMapDose \/ CallEstimate \/ CallGenerate \/ CallExpand

SpecSched == InitSched /\ [][NextSched]_vars

-----------------------------------------------------------------------------
(* The parsers, and the schedule functions applied to their result *)

InitText ==
    /\ pc = "text_in"
    /\ NoDb
    /\ text \in Texts
    /\ dose_pattern = << >> /\ duration_arg = NONE /\ fallback_instr = << >>
    /\ start_arg = NONE /\ times = << >> /\ parsed = << >> /\ items = << >>
    /\ spans = << >> /\ schedule = << >> /\ entries = << >> /\ exc = "none"
    /\ env = NoEnv /\ failed = {} /\ parser_used = "none" /\ regions = 0
    /\ saved = << >> /\ ret = << >>

TextParse ==
    /\ pc = "text_in"
    /\ UNCHANGED dbvars
    /\ parsed' = Some(parse_prescription_text(text))
    /\ pc' = "text_parsed"
    /\ UNCHANGED << text, dose_pattern, duration_arg, fallback_instr, start_arg,
                    times, items, spans, schedule, entries, exc, env, failed,
                    parser_used, regions, saved, ret >>

TextItems ==
    /\ pc = "text_parsed"
    /\ UNCHANGED dbvars
    /\ spans' = _split_items(text)
    /\ items' = parse_prescription_items(text)
    /\ pc' = "text_items"
    /\ UNCHANGED << text, dose_pattern, duration_arg, fallback_instr, start_arg,
                    times, parsed, schedule, entries, exc, env, failed,
                    parser_used, regions, saved, ret >>

\* the arguments main.py hands on from the parsed record (lines 107-113):
\* parsed has no "notes" key, so fallback_instr is ""
TextMapDose ==
    /\ pc = "text_items"
    /\ UNCHANGED dbvars
    /\ dose_pattern' = parsed[1].dose
    /\ duration_arg' = Some(parsed[1].duration_days)
    /\ times' = map_dose_pattern_to_times(parsed[1].dose, << >>)
    /\ pc' = "text_mapped"
    /\ UNCHANGED << text, fallback_instr, start_arg, parsed, items, spans,
                    schedule, entries, exc, env, failed, parser_used, regions,
                    saved, ret >>

TextGenerate ==
    /\ pc = "text_mapped"
    /\ UNCHANGED dbvars
    /\ schedule' = Some(generate_schedule_entries_for_medicine(
                            parsed[1].medicine, dose_pattern, duration_arg,
                            start_arg, fallback_instr, NONE))
    /\ pc' = "text_scheduled"
    /\ UNCHANGED << text, dose_pattern, duration_arg, fallback_instr, start_arg,
                    times, parsed, items, spans, entries, exc, env, failed,
                    parser_used, regions, saved, ret >>

TextExpand ==
    /\ pc = "text_scheduled"
    /\ UNCHANGED dbvars
    /\ LET r == expand_schedule_to_datetime_entries(schedule[1])
       IN  /\ entries' = r.entries
           /\ exc' = IF r.raised THEN "OverflowError" ELSE "none"
    /\ pc' = "text_expanded"
    /\ UNCHANGED << text, dose_pattern, duration_arg, fallback_instr, start_arg,
                    times, parsed, items, spans, schedule, env, failed,
                    parser_used, regions, saved, ret >>

NextText == TextParse \/ TextItems \/ TextMapDose \/ TextGenerate \/ TextExpand

SpecText == InitText /\ [][NextText]_vars

-----------------------------------------------------------------------------
(* main.py: one run of process_prescription *)

Init ==
    /\ pc = "pipe_start"
    /\ NoDb
    /\ env \in Envs
    /\ text = << >> /\ dose_pattern = << >> /\ duration_arg = NONE
    /\ fallback_instr = << >> /\ start_arg = NONE /\ times = << >>
    /\ parsed = << >> /\ items = << >> /\ spans = << >> /\ schedule = << >>
    /\ entries = << >> /\ exc = "none" /\ failed = {}
    /\ parser_used = "none" /\ regions = 0 /\ saved = << >> /\ ret = << >>

\* `return` after logging: the function has no other result than None
Return(stage) ==
    /\ failed' = IF stage = "" THEN failed ELSE failed \cup {stage}
    /\ ret' = Some("None")
    /\ pc' = "pipe_done"

\* lines 48-50: os.path.exists(image_path)
PipeCheckImage ==
    /\ pc = "pipe_start"
    /\ UNCHANGED dbvars
    /\ IF env.image_exists
       THEN pc' = "pipe_detect" /\ UNCHANGED << failed, ret >>
       ELSE Return("image")
    /\ UNCHANGED << text, dose_pattern, duration_arg, fallback_instr, start_arg,
                    times, parsed, items, spans, schedule, entries, exc, env,
                    parser_used, regions, saved >>

\* lines 57-67: detect_regions returns at least one box (the detector's boxes
\* or the full image), or raises when the image cannot be opened
PipeDetect ==
    /\ pc = "pipe_detect"
    /\ UNCHANGED dbvars
    /\ IF env.detector = "ok"
       THEN /\ \E n \in 1..MaxRegions : regions' = n
            /\ pc' = "pipe_ocr"
            /\ UNCHANGED << failed, ret >>
       ELSE Return("detect") /\ UNCHANGED regions
    /\ UNCHANGED << text, dose_pattern, duration_arg, fallback_instr, start_arg,
                    times, parsed, items, spans, schedule, entries, exc, env,
                    parser_used, saved >>

\* extract_text_from_image: the per-region try/except (ocr_extract.py, lines
\* 89-96) logs a failing region and goes on; a region's text is stripped and
\* kept when not empty; the kept texts are joined by "\n" and stripped
CombineRegions(read) ==
    Strip(Join(<<"\n">>,
               SelectSeq([i \in 1..Len(read) |-> Strip(read[i])],
                         LAMBDA r : r # << >>)))

\* lines 72-82.  _open_image raises outside the per-region try, so that
\* failure reaches process_prescription; an engine that is missing or fails
\* raises inside it, for every region, and the combined text is "".
PipeOcr ==
    /\ pc = "pipe_ocr"
    /\ UNCHANGED dbvars
    /\ IF env.open_image = "error"
       THEN Return("ocr") /\ UNCHANGED text
       ELSE /\ IF env.ocr_engine = "ok"
               THEN /\ \E read \in [1..regions -> RegionTexts] :
                          text' = CombineRegions(read)
                    /\ UNCHANGED failed
               ELSE /\ text' = CombineRegions(<< >>)
                    /\ failed' = failed \cup {"ocr"}
            /\ pc' = "pipe_parse"
            /\ UNCHANGED ret
    /\ UNCHANGED << dose_pattern, duration_arg, fallback_instr, start_arg,
                    times, parsed, items, spans, schedule, entries, exc, env,
                    parser_used, regions, saved >>

\* lines 87-93: the single-item parser is the only parser main.py imports
PipeParse ==
    /\ pc = "pipe_parse"
    /\ UNCHANGED dbvars
    /\ parsed' = Some(parse_prescription_text(text))
    /\ parser_used' = "single"
    /\ pc' = "pipe_schedule"
    /\ UNCHANGED << text, dose_pattern, duration_arg, fallback_instr, start_arg,
                    times, items, spans, schedule, entries, exc, env, failed,
                    regions, saved, ret >>

\* lines 106-122
PipeSchedule ==
    /\ pc = "pipe_schedule"
    /\ UNCHANGED dbvars
    /\ dose_pattern' = parsed[1].dose
    /\ duration_arg' = Some(parsed[1].duration_days)
    /\ schedule' = Some(generate_schedule_entries_for_medicine(
                            parsed[1].medicine, parsed[1].dose,
                            Some(parsed[1].duration_days), NONE, << >>, NONE))
    /\ pc' = "pipe_save"
    /\ UNCHANGED << text, fallback_instr, start_arg, times, parsed, items, spans,
                    entries, exc, env, failed, parser_used, regions, saved, ret >>

\* lines 127-141
PipeSave ==
    /\ pc = "pipe_save"
    /\ UNCHANGED dbvars
    /\ LET r == save_schedule_entries(DbModuleApi, schedule[1])
       IN  IF r.raised = "none"
           THEN saved' = Some(r.count) /\ Return("")
           ELSE UNCHANGED saved /\ Return("save")
    /\ UNCHANGED << text, dose_pattern, duration_arg, fallback_instr, start_arg,
                    times, parsed, items, spans, schedule, entries, exc, env,
                    parser_used, regions >>

Next ==
    PipeCheckImage \/ PipeDetect \/ PipeOcr \/ PipeParse \/ PipeSchedule
        \/ PipeSave

Spec == Init /\ [][Next]_vars

-----------------------------------------------------------------------------
(* db.py: save_schedule called on separate connections to one database *)

Procs == 1..MaxProcs

\* parsed.get("medicine"): << >> when the key is missing or empty
MedicineArgs == { << >>, MedName }

\* `parsed.get("medicine") or "Unknown"`
MedicineOrUnknown(m) == IF m = << >> THEN <<"U","n","k","n","o","w","n">> ELSE m

\* a reminder dict; r.get(key) is None for a key the dict lacks
FullReminder ==
    [ when |-> Some("daily"), time |-> Some("08:00"),
      start_date |-> Some("2026-11-02"), end_date |-> Some("2026-11-06"),
      message |-> Some("Take Abc") ]

NoMessageReminder == [ FullReminder EXCEPT !.message = NONE ]

ReminderLists ==
    UNION { [1..n -> {FullReminder, NoMessageReminder}] : n \in 0..MaxReminders }

\* the NOT NULL columns of table reminders
NotNullOk(med_id, r) ==
    /\ med_id # 0
    /\ r.when # NONE /\ r.time # NONE /\ r.start_date # NONE
    /\ r.end_date # NONE /\ r.message # NONE

\* SELECT id FROM medications WHERE name = ?; fetchone(): <<id>> of the first
\* row with the name, or NONE
SelectMedicineId(table, name) ==
    LET hits == SelectSeq(table, LAMBDA row : row.name = name)
    IN  IF hits = << >> THEN NONE ELSE Some(hits[1].id)

\* the rowid an INTEGER PRIMARY KEY AUTOINCREMENT column gives the next row of
\* a table that had no row deleted
NextRowId(table, pending) == Len(table) + Len(pending) + 1

MutCloseCommitsPending(table, pending) == table \o pending

\* conn.close() with an open transaction: the uncommitted rows are discarded
TableAfterClose(table, pending) == table

\* a call of save_schedule(parsed, reminders, conn) about to start
NewCall(m, rs, own) ==
    [ medicine |-> m, reminders |-> rs, own_conn |-> own, at |-> "select",
      med_id |-> 0, new_med |-> << >>, pending |-> << >>, ids |-> << >>,
      raised |-> "none", returned |-> NONE ]

InitDb ==
    /\ pc = "db"
    /\ text = << >> /\ dose_pattern = << >> /\ duration_arg = NONE
    /\ fallback_instr = << >> /\ start_arg = NONE /\ times = << >>
    /\ parsed = << >> /\ items = << >> /\ spans = << >> /\ schedule = << >>
    /\ entries = << >> /\ exc = "none" /\ env = NoEnv /\ failed = {}
    /\ parser_used = "none" /\ regions = 0 /\ saved = << >> /\ ret = << >>
    /\ medications = << >> /\ reminders = << >> /\ lock = 0
    /\ calls \in [ Procs -> { NewCall(m, rs, own) : m \in MedicineArgs,
                                rs \in ReminderLists, own \in BOOLEAN } ]

\* an exception leaves save_schedule: `finally` closes a connection the call
\* opened itself, which discards its open transaction and frees the lock; a
\* caller's connection keeps its open transaction
Raise(p, e, holds) ==
    /\ calls' = [ calls EXCEPT ![p] =
                    [ @ EXCEPT !.at = "raised", !.raised = e,
                               !.new_med = IF calls[p].own_conn THEN << >> ELSE @,
                               !.pending = IF calls[p].own_conn THEN << >> ELSE @ ] ]
    /\ reminders' = IF calls[p].own_conn
                    THEN TableAfterClose(reminders, calls[p].pending)
                    ELSE reminders
    /\ lock' = IF calls[p].own_conn THEN (IF lock = p THEN 0 ELSE lock)
               ELSE (IF holds THEN p ELSE lock)
    /\ UNCHANGED medications

\* upsert_medicine, lines 48-51: the SELECT and `if row: return`
DbSelect(p) ==
    /\ calls[p].at = "select"
    /\ UNCHANGED progvars
    /\ LET row == SelectMedicineId(medications, MedicineOrUnknown(calls[p].medicine))
       IN  calls' = [ calls EXCEPT ![p] =
                        IF row # NONE
                        THEN [ @ EXCEPT !.med_id = row[1], !.at = "insert" ]
                        ELSE [ @ EXCEPT !.at = "insert_med" ] ]
    /\ UNCHANGED << medications, reminders, lock >>

\* upsert_medicine, line 52: the INSERT opens a write transaction
DbInsertMed(p) ==
    /\ calls[p].at = "insert_med"
    /\ UNCHANGED progvars
    /\ lock = 0
    /\ lock' = p
    /\ calls' = [ calls EXCEPT ![p] =
                    [ @ EXCEPT !.at = "commit_med",
                               !.new_med = << [ id |-> NextRowId(medications, << >>),
                                                name |-> MedicineOrUnknown(calls[p].medicine) ] >> ] ]
    /\ UNCHANGED << medications, reminders >>

\* upsert_medicine, lines 53-54: commit and return cur.lastrowid
DbCommitMed(p) ==
    /\ calls[p].at = "commit_med"
    /\ UNCHANGED progvars
    /\ medications' = medications \o calls[p].new_med
    /\ lock' = 0
    /\ calls' = [ calls EXCEPT ![p] =
                    [ @ EXCEPT !.at = "insert", !.med_id = calls[p].new_med[1].id,
                               !.new_med = << >> ] ]
    /\ UNCHANGED reminders

\* save_schedule, lines 63-79: one pass of the loop over the reminders
DbInsertReminder(p) ==
    /\ calls[p].at = "insert"
    /\ UNCHANGED progvars
    /\ Len(calls[p].ids) < Len(calls[p].reminders)
    /\ lock \in {0, p}
    /\ LET r  == calls[p].reminders[Len(calls[p].ids) + 1]
           id == NextRowId(reminders, calls[p].pending)
       IN  IF NotNullOk(calls[p].med_id, r)
           THEN /\ calls' = [ calls EXCEPT ![p] =
                                [ @ EXCEPT !.pending = Append(@,
                                               [ id |-> id, medicine_id |-> calls[p].med_id,
                                                 values |-> r, call |-> p ]),
                                           !.ids = Append(@, id) ] ]
                /\ lock' = p
                /\ UNCHANGED << medications, reminders >>
           ELSE Raise(p, "IntegrityError", TRUE)

\* a write statement waits for the lock another connection holds until the
\* connection's timeout expires: sqlite3.OperationalError (database is locked)
DbBusy(p) ==
    /\ UNCHANGED progvars
    /\ \/ calls[p].at = "insert_med"
       \/ calls[p].at = "insert" /\ Len(calls[p].ids) < Len(calls[p].reminders)
    /\ lock \notin {0, p}
    /\ Raise(p, "OperationalError", FALSE)

\* save_schedule, lines 80-83: conn.commit(), return ids, close
DbCommit(p) ==
    /\ calls[p].at = "insert"
    /\ UNCHANGED progvars
    /\ Len(calls[p].ids) = Len(calls[p].reminders)
    /\ reminders' = reminders \o calls[p].pending
    /\ lock' = IF lock = p THEN 0 ELSE lock
    /\ calls' = [ calls EXCEPT ![p] =
                    [ @ EXCEPT !.at = "returned", !.returned = Some(calls[p].ids),
                               !.pending = << >> ] ]
    /\ UNCHANGED medications

NextDb ==
    \E p \in Procs :
        \/ DbSelect(p)
        \/ DbInsertMed(p)
        \/ DbCommitMed(p)
        \/ DbInsertReminder(p)
        \/ DbBusy(p)
        \/ DbCommit(p)

SpecDb == InitDb /\ [][NextDb]_vars

-----------------------------------------------------------------------------
(* Claims *)

Range(s) == { s[i] : i \in 1..Len(s) }

\* C1: expand_schedule_to_datetime_entries(s) has exactly
\* s.duration_days x len(s.times) entries, and the (date, clock time) pairs of
\* the entries are exactly the product of the dates start_date ..
\* start_date + duration_days - 1 and the times of s.
C1_ExpandIsProduct ==
    pc = "sched_expanded" =>
        LET s == schedule[1]
        IN  /\ Len(entries) = s.duration_days * Len(s.times)
            /\ { <<e.date, e.time>> : e \in Range(entries) }
                 = (s.start_date .. (s.start_date + s.duration_days - 1))
                       \X Range(s.times)

C1_Witness ==
    /\ pc = "sched_expanded"
    /\ schedule[1].duration_days = 3
    /\ Len(schedule[1].times) = 3
    /\ Len(entries) = 9

\* C2: the schedule generate_schedule_entries_for_medicine returns has
\* duration_days >= 1 and a non-empty times list, whatever the arguments, and
\* duration_days = 5 whenever the duration argument was None or <= 0.
C2_ScheduleDefaults ==
    schedule # << >> =>
        /\ schedule[1].duration_days >= 1
        /\ schedule[1].times # << >>
        /\ (duration_arg = NONE \/ duration_arg[1] <= 0)
               => schedule[1].duration_days = 5

C2_Witness ==
    /\ schedule # << >>
    /\ dose_pattern = << >>
    /\ duration_arg = Some(0)
    /\ schedule[1].duration_days = 5
    /\ Len(schedule[1].times) = 2

\* the clock times a pattern a-b-c names: 08:00 iff a = 1, 13:00 iff b = 1,
\* 21:00 iff c = 1, in that order
PatternTimes(p) ==
    (IF p[1] = "1" THEN << Time(8, 0) >> ELSE << >>)
        \o (IF p[3] = "1" THEN << Time(13, 0) >> ELSE << >>)
        \o (IF p[5] = "1" THEN << Time(21, 0) >> ELSE << >>)

\* C4, as stated: for each of the eight patterns a-b-c over {0,1}, 0-0-0
\* included, map_dose_pattern_to_times returns exactly the times the 1 digits
\* name.
C4_AllEightPatterns ==
    (pc = "sched_mapped" /\ dose_pattern \in BinaryPatterns)
        => times = PatternTimes(dose_pattern)

\* C4, amended: for each pattern a-b-c over {0,1} with at least one 1 digit,
\* map_dose_pattern_to_times returns exactly the times the 1 digits name; for
\* 0-0-0 the list is not empty, and it is the default pair 08:00, 21:00
\* whenever the fallback text is empty.
C4_PatternsWithADose ==
    (pc = "sched_mapped" /\ dose_pattern \in BinaryPatterns)
        => IF dose_pattern # <<"0", "-", "0", "-", "0">>
           THEN times = PatternTimes(dose_pattern)
           ELSE /\ times # << >>
                /\ fallback_instr = << >> => times = << Time(8, 0), Time(21, 0) >>

C4_Witness ==
    /\ pc = "sched_mapped"
    /\ dose_pattern = <<"0", "-", "1", "-", "1">>
    /\ times = << Time(13, 0), Time(21, 0) >>

\* (date, hour, minute) of a is not later than that of b
NotLater(a, b) ==
    \/ a.date < b.date
    \/ a.date = b.date /\ a.time.hour < b.time.hour
    \/ a.date = b.date /\ a.time.hour = b.time.hour
         /\ a.time.minute <= b.time.minute

\* C5: the list expand_schedule_to_datetime_entries returns is in
\* non-decreasing datetime order: by day, and within a day from the earliest
\* to the latest slot.
C5_Chronological ==
    pc = "sched_expanded" =>
        \A i \in 1..Len(entries) : \A j \in i..Len(entries) :
            NotLater(entries[i], entries[j])

\* C3: when the duration matcher finds nothing or a non-positive number in the
\* text, parse_prescription_text returns duration_days = 5 and the schedule
\* process_prescription builds from the record spans 5 days.
C3_DefaultDurationFive ==
    (parsed # << >>
       /\ (_parse_duration_days(text) = NONE \/ _parse_duration_days(text)[1] <= 0))
        => /\ parsed[1].duration_days = 5
           /\ schedule # << >> => schedule[1].duration_days = 5

\* end of the run of blanks within a line, starting at offset p
RECURSIVE BlankRunEnd(_, _)
BlankRunEnd(s, p) ==
    IF p < Len(s) /\ s[p + 1] \in {" ", "\t"} THEN BlankRunEnd(s, p + 1) ELSE p

\* the offsets of the lines that begin with "<integer>)"
MarkerLines(s) ==
    { p \in 0..Len(s) :
        /\ AtLineStart(s, p)
        /\ DigitRunEnd(s, BlankRunEnd(s, p)) > BlankRunEnd(s, p)
        /\ DigitRunEnd(s, BlankRunEnd(s, p)) < Len(s)
        /\ s[DigitRunEnd(s, BlankRunEnd(s, p)) + 1] = ")" }

\* C6: _split_items returns exactly one span per line that begins with
\* "<integer>)", and parse_prescription_items exactly one record per such
\* line: no item is dropped.
C6_OneSpanPerMarker ==
    pc = "text_items" =>
        /\ Len(spans) = Cardinality(MarkerLines(text))
        /\ Len(items) = Cardinality(MarkerLines(text))

\* C7: parse_prescription_text, parse_prescription_items,
\* map_dose_pattern_to_times, generate_schedule_entries_for_medicine and
\* expand_schedule_to_datetime_entries, applied in turn to any text, each
\* return a value: no exception leaves any of them.
C7_NeverRaises == exc = "none"

\* C8: a collaborator stage that fails ends the pipeline run: no later stage
\* runs, nothing is parsed or scheduled after the failure, and
\* process_prescription returns instead of raising.
C8_FailureAborts ==
    failed # {} =>
        /\ pc = "pipe_done"
        /\ ret # << >>
        /\ (failed \cap {"image", "detect", "ocr"} # {})
               => (parsed = << >> /\ schedule = << >> /\ saved = << >>)

\* the failure kind the caller is to see for a finished run
ExpectedOutcome ==
    IF "image" \in failed THEN "not-found"
    ELSE IF failed \cap {"detect", "ocr"} # {} THEN "engine-unavailable"
    ELSE IF "save" \in failed THEN "storage-error"
    ELSE "ok"

\* C9: what process_prescription hands back to its caller tells the classes of
\* collaborator failure apart (not-found, engine-unavailable, storage-error)
\* and apart from a successful run.
C9_DistinctOutcomes ==
    pc = "pipe_done" => ret = Some(ExpectedOutcome)

\* C10: a recognized text with N >= 1 item markers goes through the
\* multi-item segmenter and yields N records, each with a schedule of its
\* own; the single-item parser gets the whole text only when there is no
\* marker.
C10_SegmenterRouting ==
    schedule # << >> =>
        LET n == Len(_split_items(text))
        IN  IF n >= 1
            THEN parser_used = "items" /\ Len(parsed) = n /\ Len(schedule) = n
            ELSE parser_used = "single"

\* C11: when the image check, region detection, OCR, parsing and schedule
\* generation all succeed, the run ends with duration_days x len(times)
\* reminder rows stored, the count save_schedule_entries returned.
C11_RowsStored ==
    (pc = "pipe_done" /\ schedule # << >> /\ failed \cap {"image", "detect", "ocr"} = {})
        => /\ "save" \notin failed
           /\ saved = Some(schedule[1].duration_days * Len(schedule[1].times))

\* the clock time a slot name of a record's 'time' list stands for
SlotClock(slot) ==
    IF slot = <<"m","o","r","n","i","n","g">> THEN Time(8, 0)
    ELSE IF slot = <<"n","o","o","n">> THEN Time(13, 0)
    ELSE IF slot = <<"e","v","e","n","i","n","g">> THEN Time(18, 0)
    ELSE Time(21, 0)

\* C13: the schedule process_prescription builds from the parsed record has
\* exactly one clock time per slot of the record's 'time' list and no other
\* time.
C13_TimesAreRecordSlots ==
    (pc \in {"pipe_save", "pipe_done"} /\ schedule # << >> /\ parsed # << >>)
        => /\ Len(schedule[1].times) = Len(parsed[1].time)
           /\ Range(schedule[1].times) = { SlotClock(sl) : sl \in Range(parsed[1].time) }

\* the first strategy of the documented precedence that yields times
FirstSuccess(dose, fallback) ==
    LET counts == parse_numeric_pattern(normalize_text(dose))
        byNum  == IF counts # NONE THEN map_counts_to_times(counts) ELSE << >>
        byText == estimate_times_from_text(dose)
        byFall == estimate_times_from_text(fallback)
    IN  IF byNum # << >> THEN byNum
        ELSE IF byText # << >> THEN byText
        ELSE IF byFall # << >> THEN byFall
        ELSE << DEFAULT_MORNING, DEFAULT_NIGHT >>

\* C15: map_dose_pattern_to_times returns the times of the first of numeric
\* pattern, phrases/keywords of the dose text, phrases/keywords of the
\* fallback text, default pair that yields times; an empty or missing dose
\* text with a recognizable fallback gives the fallback's times.
C15_FirstSuccessWins ==
    (pc = "sched_mapped") => times = FirstSuccess(dose_pattern, fallback_instr)

\* position of a slot name in the canonical order morning, noon, evening, night
SlotRank(slot) ==
    IF slot = <<"m","o","r","n","i","n","g">> THEN 1
    ELSE IF slot = <<"n","o","o","n">> THEN 2
    ELSE IF slot = <<"e","v","e","n","i","n","g">> THEN 3
    ELSE IF slot = <<"n","i","g","h","t">> THEN 4
    ELSE 0

\* C16: the 'time' list of parse_prescription_text holds normalised slot
\* names, each at most once, in the order morning, noon, evening, night,
\* whatever the order of the keywords in the text.
C16_CanonicalOrder ==
    (pc = "text_parsed") =>
        LET t == parsed[1].time
        IN  /\ \A i \in 1..Len(t) : SlotRank(t[i]) >= 1
            /\ \A i, j \in 1..Len(t) : i < j => SlotRank(t[i]) < SlotRank(t[j])

\* the dose pattern DOSE_RE finds in the text has only the digits 0 and 1,
\* and TIME_RE finds no time-of-day keyword
BinaryDoseNoKeyword(t) ==
    /\ DoseSearch(t, 0) # NONE
    /\ \A i \in {1, 3, 5} : DoseSearch(t, 0)[1][i] \in {"0", "1"}
    /\ TimeHits(t, 0) = << >>

\* morning iff a = 1, noon iff b = 1, night iff c = 1, in that order
SlotsOfDigits(d) ==
    (IF d[1] = "1" THEN << <<"m","o","r","n","i","n","g">> >> ELSE << >>)
    \o (IF d[3] = "1" THEN << <<"n","o","o","n">> >> ELSE << >>)
    \o (IF d[5] = "1" THEN << <<"n","i","g","h","t">> >> ELSE << >>)

\* C14: for a text with a dose pattern a-b-c of digits 0/1 and no
\* time-of-day keyword, the 'time' list of parse_prescription_text is
\* morning iff a = 1, noon iff b = 1, night iff c = 1, in that order, so it
\* has as many slots as the pattern has 1 digits.
C14_TimesFromDigits ==
    (pc = "text_parsed" /\ BinaryDoseNoKeyword(text)) =>
        /\ parsed[1].time = SlotsOfDigits(DoseSearch(text, 0)[1])
        /\ Len(parsed[1].time) =
               Cardinality({ i \in {1, 3, 5} : parsed[1].dose[i] = "1" })

C14_Witness ==
    /\ pc = "text_parsed"
    /\ BinaryDoseNoKeyword(text)
    /\ parsed[1].dose = <<"1","-","0","-","1">>
    /\ parsed[1].time = << <<"m","o","r","n","i","n","g">>, <<"n","i","g","h","t">> >>

\* C17: for a text holding 'every N hours' with N >= 1 and none of the
\* once/daily/twice/three-times phrases, estimate_times_from_text returns
\* floor(24/N) times, the k-th (from 0) being hour (8 + k*N) mod 24, minute 0.
C17_EveryNHours ==
    \A n \in 1..MaxHours :
        (pc = "sched_estimated" /\ dose_pattern \in EveryTexts(n)) =>
            /\ Len(times) = 24 \div n
            /\ \A k \in 0..((24 \div n) - 1) :
                   times[k + 1] = Time((8 + k * n) % 24, 0)

C17_Witness ==
    /\ pc = "sched_estimated"
    /\ dose_pattern \in EveryTexts(6)
    /\ times = << Time(8, 0), Time(14, 0), Time(20, 0), Time(2, 0) >>

\* the rows of table medications with the name a call uses
RowsNamed(name) == { i \in 1..Len(medications) : medications[i].name = name }

\* C12: whatever the interleaving of the calls made on separate connections
\* with one medicine name, table medications ends with exactly one row of
\* that name and every call that returns has used that row's id.
C12_OneRowPerName ==
    (\A p \in Procs : calls[p].at \in {"returned", "raised"}) =>
        \A p \in Procs :
            calls[p].at = "returned" =>
                LET name == MedicineOrUnknown(calls[p].medicine)
                IN  /\ Cardinality(RowsNamed(name)) = 1
                    /\ \A i \in RowsNamed(name) : calls[p].med_id = medications[i].id

\* the committed reminder rows a call inserted, in rowid order
RowsOfCall(p) == SelectSeq(reminders, LAMBDA row : row.call = p)

\* C18: a call of save_schedule that returns gives len(reminders) ids in
\* input order, and the rows it inserted are those ids' rows, each holding
\* its reminder's values and the one medications id of the call, a row named
\* parsed['medicine']; a call on its own connection that raises leaves no
\* reminder row of its own in the database.
C18_AllOrNothing ==
    \A p \in Procs :
        /\ calls[p].at = "returned" =>
              LET ids  == calls[p].returned[1]
                  rows == RowsOfCall(p)
              IN  /\ Len(ids) = Len(calls[p].reminders)
                  /\ Len(rows) = Len(ids)
                  /\ \A k \in 1..Len(ids) :
                         /\ rows[k].id = ids[k]
                         /\ rows[k].values = calls[p].reminders[k]
                         /\ rows[k].medicine_id = calls[p].med_id
                  /\ \A k \in 1..(Len(ids) - 1) : ids[k] < ids[k + 1]
                  /\ calls[p].med_id \in 1..Len(medications)
                  /\ medications[calls[p].med_id].name
                         = MedicineOrUnknown(calls[p].medicine)
        /\ (calls[p].at = "raised" /\ calls[p].own_conn) =>
              /\ calls[p].raised # "none"
              /\ calls[p].returned = NONE
              /\ RowsOfCall(p) = << >>
              /\ calls[p].pending = << >>

\* one call failed on its second insert after its first row was written,
\* another call returned two ids
C18_Witness ==
    \E p, q \in Procs :
        /\ calls[p].at = "raised" /\ calls[p].own_conn
        /\ calls[p].raised = "IntegrityError"
        /\ calls[p].reminders = << FullReminder, NoMessageReminder >>
        /\ calls[q].at = "returned" /\ Len(calls[q].returned[1]) = 2

====
